---- MODULE Spec2Model ----
(***************************************************************************)
(* Energy-aware scheduling models: the construction and publication of     *)
(* the per-CPU energy model (init_sched_energy, build_energy_model,        *)
(* free_energy_model) and the lock-free readers of it                      *)
(* (sched_energy_enabled, find_cap_state).                                 *)
(*                                                                         *)
(* One writer thread runs init_sched_energy, statement by statement; one   *)
(* reader thread runs "if (sched_energy_enabled()) find_cap_state(cpu, u)" *)
(* and interleaves with it.  The allocator, the OPP library and the        *)
(* topology layer are the environment: every call that can fail fails      *)
(* nondeterministically.                                                   *)
(***************************************************************************)
EXTENDS Integers, Sequences, FiniteSets, TLC

\* Number of possible CPUs (for_each_possible_cpu walks 0..NrCpus-1).
NrCpus == 3
\* Number of times init_sched_energy is invoked in a run.
MaxCalls == 2

Cpus == 0..(NrCpus - 1)

\* The null pointer; heap addresses are 1, 2, ...
NULL == 0

\* Stands for ULONG_MAX.  Every frequency, capacity and efficiency of the
\* model is below it, so each comparison against it has the outcome it has
\* against 2^64 - 1.
ULONG_MAX == 2147483647

\* Utilizations handed to find_cap_state by the reader.
Utils == {0, 200, 500}

(***************************************************************************)
(* The platform: what the OPP library and the architecture report.         *)
(* An OPP table is the list of a device's operating points in ascending    *)
(* frequency order; cap_scale is arch_scale_cpu_capacity().                *)
(***************************************************************************)
Opp(f, p) == [freq |-> f, power |-> p]

Platforms ==
    { [opps |-> <<Opp(1, 10), Opp(3, 40), Opp(6, 100)>>, scale |-> 600],
      [opps |-> <<Opp(1, 10), Opp(2, 20), Opp(4, 100)>>, scale |-> 1000],
      [opps |-> <<Opp(5, 7)>>,                           scale |-> 1024],
      [opps |-> <<Opp(2, 10), Opp(4, 0)>>,               scale |-> 600],
      [opps |-> <<Opp(0, 5), Opp(4, 50)>>,               scale |-> 600],
      [opps |-> <<Opp(0, 5)>>,                           scale |-> 1024],
      [opps |-> << >>,                                   scale |-> 600] }

\* The OPP-sharing relation is a partition of the CPUs: rail[c] is the lowest
\* CPU of the frequency domain of c.
RailMaps ==
    { r \in [Cpus -> Cpus] : \A c \in Cpus : r[c] <= c /\ r[r[c]] = r[c] }

VARIABLES
    rail, opps, cap_scale,          \* the platform
    sched_energy_present,           \* the static key
    energy_model,                   \* the per-CPU table pointer
    sched_freq_domains,             \* the list of freq_domain, head first
    heap,                           \* live objects, by address
    pc, passes,                     \* the writer: position, outcomes of the passes so far
    cpu, fdom, em,                  \* locals of init_sched_energy
    b_cpu, opp_cnt, max_freq, b_em, i, freq, prev_opp_eff,  \* build_energy_model
    warned, b_err,                  \* the warnings and the error of the build in hand
    allocs, frees, ub, fail_at,     \* allocator accounting of the current pass
    r_pc, r_em, r_util, r_ret, r_states, r_fault     \* the reader

platform == <<rail, opps, cap_scale>>
globals == <<sched_energy_present, energy_model, sched_freq_domains, heap>>
init_locals == <<cpu, fdom, em>>
build_locals == <<b_cpu, opp_cnt, max_freq, b_em, i, freq, prev_opp_eff, warned, b_err>>
account == <<allocs, frees, ub, fail_at>>
writer == <<pc, passes, init_locals, build_locals, account>>
reader == <<r_pc, r_em, r_util, r_ret, r_states, r_fault>>
vars == <<platform, globals, writer, reader>>

(***************************************************************************)
(* The heap.  An object is live from its allocation to its free; a freed   *)
(* object leaves the heap, so a pointer to it dangles.                     *)
(***************************************************************************)
Live(a) == a \in DOMAIN heap

EmptyMap == [a \in {} |-> NULL]

\* alloc_percpu(struct sched_energy_model *): zeroed slots.
PercpuObj == [kind |-> "percpu", slot |-> [c \in Cpus |-> NULL]]
\* kzalloc(sizeof(struct freq_domain)): empty span.
FdomObj == [kind |-> "fdom", span |-> {}]
\* kzalloc(sizeof(*em)).
EmObj == [kind |-> "em", nr_cap_states |-> 0, cap_states |-> NULL]
\* kcalloc(opp_cnt, sizeof(*em->cap_states)): opp_cnt zeroed entries.
CsObj(n) == [kind |-> "cs", states |-> [k \in 1..n |-> [cap |-> 0, power |-> 0]]]

SeqRange(s) == { s[k] : k \in 1..Len(s) }

\* Every pointer value the program still holds, dangling or not.
Referenced ==
    ( {energy_model, fdom, em, b_em, r_em}
      \cup SeqRange(sched_freq_domains)
      \cup UNION { {heap[t].slot[c] : c \in Cpus} :
                   t \in {a \in DOMAIN heap : heap[a].kind = "percpu"} }
      \cup { heap[e].cap_states :
             e \in {a \in DOMAIN heap : heap[a].kind = "em"} } ) \ {NULL}

\* The address the allocator returns: the lowest one that is neither live nor
\* held by a pointer other than those in reuse (the pointer being overwritten).
Fresh(reuse) ==
    LET taken == DOMAIN heap \cup (Referenced \ reuse)
    IN  CHOOSE a \in 1..(Cardinality(taken) + 1) :
            a \notin taken /\ \A b \in 1..(a - 1) : b \in taken

Store(h, a, obj) == (a :> obj) @@ h

Drop(h, a) == [x \in DOMAIN h \ {a} |-> h[x]]

\* Storage the program can still reach; the rest is leaked.
Reachable ==
    LET tbls == {energy_model} \cap DOMAIN heap
        ems  == ({heap[t].slot[c] : t \in tbls, c \in Cpus} \cup {r_em})
                    \cap DOMAIN heap
        css  == {heap[e].cap_states : e \in ems} \cap DOMAIN heap
        doms == SeqRange(sched_freq_domains) \cap DOMAIN heap
    IN  tbls \cup ems \cup css \cup doms

(***************************************************************************)
(* The OPP library.                                                        *)
(***************************************************************************)
\* dev_pm_opp_get_sharing_cpus(): the CPUs that share the OPP table of c.
SharingCpus(c) == { d \in Cpus : rail[d] = rail[c] }

\* cpumask_first().
CpumaskFirst(span) == CHOOSE c \in span : \A d \in span : c <= d

\* The floor search returning the lowest OPP whose frequency is <= f.
FreqFloor_lowest(f) ==
    LET S == { k \in 1..Len(opps) : opps[k].freq <= f }
    IN  IF S = {} THEN 0 ELSE CHOOSE k \in S : \A j \in S : k <= j

\* dev_pm_opp_find_freq_floor(dev, &f): index of the highest OPP whose
\* frequency is <= f, 0 (an error) when there is none.
FreqFloor(f) ==
    LET S == { k \in 1..Len(opps) : opps[k].freq <= f }
    IN  IF S = {} THEN 0 ELSE CHOOSE k \in S : \A j \in S : j <= k

\* dev_pm_opp_find_freq_ceil(dev, &f): index of the lowest OPP whose
\* frequency is >= f, 0 (an error) when there is none.
FreqCeil(f) ==
    LET S == { k \in 1..Len(opps) : opps[k].freq >= f }
    IN  IF S = {} THEN 0 ELSE CHOOSE k \in S : \A j \in S : k <= j

TypeOK ==
    /\ rail \in RailMaps
    /\ sched_energy_present \in BOOLEAN
    /\ Len(passes) <= MaxCalls
    /\ cpu \in 0..NrCpus
    /\ ub \in BOOLEAN

Init ==
    /\ rail \in RailMaps
    /\ \E p \in Platforms : opps = p.opps /\ cap_scale = p.scale
    /\ sched_energy_present = FALSE
    /\ energy_model = NULL
    /\ sched_freq_domains = << >>
    /\ heap = EmptyMap
    /\ pc = "idle" /\ passes = << >>
    /\ cpu = 0 /\ fdom = NULL /\ em = NULL
    /\ b_cpu = 0 /\ opp_cnt = 0 /\ max_freq = 0 /\ b_em = NULL /\ i = 0 /\ freq = 0
    /\ prev_opp_eff = 0 /\ warned = {} /\ b_err = "none"
    /\ allocs = EmptyMap /\ frees = EmptyMap /\ ub = FALSE /\ fail_at = "none"
    /\ r_pc = "idle" /\ r_em = NULL /\ r_util = 0 /\ r_ret = 0
    /\ r_states = << >> /\ r_fault = "none"

(***************************************************************************)
(* The allocator's accounting of the current pass: allocs maps each        *)
(* address allocated in the pass to its kind, frees counts the kfree /     *)
(* free_percpu calls on each address.                                      *)
(***************************************************************************)
Allocated(al, a, kind) == (a :> kind) @@ al

KfreeHeap(h, a) == IF a \in DOMAIN h THEN Drop(h, a) ELSE h

KfreeCount(fr, a) ==
    IF a \in DOMAIN fr THEN [fr EXCEPT ![a] = @ + 1] ELSE (a :> 1) @@ fr

(***************************************************************************)
(* init_sched_energy                                                       *)
(***************************************************************************)
\* Call with the failure path's reset of the pointer taken on the early return.
Call_reset ==
    /\ pc = "idle" /\ Len(passes) < MaxCalls /\ ~ub
    /\ heap' = [a \in Reachable |-> heap[a]]
    /\ allocs' = EmptyMap /\ frees' = EmptyMap /\ fail_at' = "none"
    /\ \E sd \in BOOLEAN :
          IF sd
          THEN pc' = "alloc_percpu" /\ passes' = passes
                  /\ energy_model' = energy_model
          ELSE pc' = "idle" /\ passes' = Append(passes, "skip")
                  /\ energy_model' = NULL
    /\ UNCHANGED <<platform, sched_energy_present, sched_freq_domains,
                   init_locals, build_locals, ub, reader>>

\* Lines 128-141: entry and the SD_ASYM_CPUCAPACITY test.  Storage no pointer
\* reaches any more is dropped from the model when a new invocation starts,
\* and the accounting starts afresh.
Call ==
    /\ pc = "idle" /\ Len(passes) < MaxCalls /\ ~ub
    /\ heap' = [a \in Reachable |-> heap[a]]
    /\ allocs' = EmptyMap /\ frees' = EmptyMap /\ fail_at' = "none"
    /\ \E sd \in BOOLEAN :
          IF sd
          THEN pc' = "alloc_percpu" /\ passes' = passes
          ELSE pc' = "idle" /\ passes' = Append(passes, "skip")
    /\ UNCHANGED <<platform, sched_energy_present, energy_model,
                   sched_freq_domains, init_locals, build_locals, ub, reader>>

\* Lines 143-145: energy_model = alloc_percpu(...).
AllocPercpu ==
    /\ pc = "alloc_percpu"
    /\ \E ok \in BOOLEAN :
          IF ok
          THEN LET a == Fresh({energy_model})
               IN  /\ heap' = Store(heap, a, PercpuObj)
                   /\ allocs' = Allocated(allocs, a, "percpu")
                   /\ energy_model' = a
                   /\ cpu' = 0
                   /\ pc' = "for_each_cpu"
                   /\ fail_at' = fail_at
          ELSE /\ energy_model' = NULL
               /\ pc' = "exit_fail"
               /\ fail_at' = "percpu"
               /\ UNCHANGED <<heap, allocs, cpu>>
    /\ UNCHANGED <<platform, sched_energy_present, sched_freq_domains, passes,
                   fdom, em, build_locals, frees, ub, reader>>

\* ForEachCpu without the test of line 148: no CPU is skipped.
ForEachCpu_noskip ==
    /\ pc = "for_each_cpu"
    /\ IF cpu >= NrCpus
       THEN pc' = "enable" /\ cpu' = cpu
       ELSE pc' = "alloc_fdom" /\ cpu' = cpu
    /\ UNCHANGED <<platform, globals, passes, fdom, em, build_locals, account,
                   reader>>

\* Lines 147-149: the loop head and the skip of an already assigned CPU.
ForEachCpu ==
    /\ pc = "for_each_cpu"
    /\ IF cpu >= NrCpus
       THEN pc' = "enable" /\ cpu' = cpu
       ELSE IF heap[energy_model].slot[cpu] # NULL
            THEN pc' = "for_each_cpu" /\ cpu' = cpu + 1
            ELSE pc' = "alloc_fdom" /\ cpu' = cpu
    /\ UNCHANGED <<platform, globals, passes, fdom, em, build_locals, account,
                   reader>>

\* Lines 152-154: fdom = kzalloc(...).
AllocFdom ==
    /\ pc = "alloc_fdom"
    /\ \E ok \in BOOLEAN :
          IF ok
          THEN LET a == Fresh({fdom})
               IN  /\ heap' = Store(heap, a, FdomObj)
                   /\ allocs' = Allocated(allocs, a, "fdom")
                   /\ fdom' = a
                   /\ pc' = "sharing_cpus"
                   /\ fail_at' = fail_at
          ELSE /\ fdom' = NULL
               /\ pc' = "free_em"
               /\ fail_at' = "fdom"
               /\ UNCHANGED <<heap, allocs>>
    /\ UNCHANGED <<platform, sched_energy_present, energy_model,
                   sched_freq_domains, passes, cpu, em, build_locals, frees, ub,
                   reader>>

\* Lines 156-160: the span query and list_add() at the head of the list.  A
\* failed query jumps to free_em with fdom on no list.
GetSharingCpus ==
    /\ pc = "sharing_cpus"
    /\ \E ret \in {0, -1} :
          IF ret # 0
          THEN /\ pc' = "free_em"
               /\ fail_at' = "span"
               /\ UNCHANGED <<heap, sched_freq_domains>>
          ELSE /\ heap' = [heap EXCEPT ![fdom].span = SharingCpus(cpu)]
               /\ sched_freq_domains' = <<fdom>> \o sched_freq_domains
               /\ pc' = "build"
               /\ fail_at' = fail_at
    /\ UNCHANGED <<platform, sched_energy_present, energy_model, passes,
                   init_locals, build_locals, allocs, frees, ub, reader>>

(***************************************************************************)
(* build_energy_model                                                      *)
(***************************************************************************)
\* Capacity with the division done before the multiplication.
Capacity_divfirst(f, scale, maxf) == (f \div maxf) * scale

\* Line 81: cap = freq * cap_scale / max_freq.
Capacity(f, scale, maxf) == (f * scale) \div maxf

\* Line 91: opp_eff = (cap << 20) / power.
OppEff(cap, power) == (cap * 1048576) \div power

\* The return of build_energy_model: its locals die, its result is the em of
\* line 168.
BuildReturn(ret) ==
    /\ em' = ret
    /\ pc' = "built"
    /\ opp_cnt' = 0 /\ max_freq' = 0 /\ b_em' = NULL /\ i' = 0 /\ freq' = 0
    /\ prev_opp_eff' = 0

\* Lines 167-168 and 27-47: the call on cpumask_first(span), the device and
\* the OPP count.
BuildEntry ==
    /\ pc = "build"
    /\ b_cpu' = CpumaskFirst(heap[fdom].span)
    /\ warned' = {}
    /\ \E dev \in BOOLEAN, cnt \in {Len(opps), -1} :
          IF ~dev
          THEN b_err' = "dev" /\ BuildReturn(NULL)
          ELSE IF cnt <= 0
               THEN b_err' = "count" /\ BuildReturn(NULL)
               ELSE /\ b_err' = "none"
                    /\ opp_cnt' = cnt
                    /\ max_freq' = ULONG_MAX
                    /\ prev_opp_eff' = ULONG_MAX
                    /\ b_em' = NULL
                    /\ pc' = "b_max_freq"
                    /\ UNCHANGED <<em, i, freq>>
    /\ UNCHANGED <<platform, globals, passes, cpu, fdom, account, reader>>

\* Lines 49-59: the floor search for the highest frequency.
BuildMaxFreq ==
    /\ pc = "b_max_freq"
    /\ \E err \in BOOLEAN :
          LET k == FreqFloor(max_freq)
          IN  IF err \/ k = 0
              THEN b_err' = "floor" /\ BuildReturn(NULL)
              ELSE IF opps[k].freq = 0
                   THEN b_err' = "max_freq" /\ BuildReturn(NULL)
                   ELSE /\ max_freq' = opps[k].freq
                        /\ pc' = "b_alloc_em"
                        /\ UNCHANGED <<em, opp_cnt, b_em, i, freq, prev_opp_eff,
                                       b_err>>
    /\ UNCHANGED <<platform, globals, passes, cpu, fdom, b_cpu, warned, account,
                   reader>>

\* Lines 61-63: em = kzalloc(...).
BuildAllocEm ==
    /\ pc = "b_alloc_em"
    /\ \E ok \in BOOLEAN :
          IF ok
          THEN LET a == Fresh({b_em})
               IN  /\ heap' = Store(heap, a, EmObj)
                   /\ allocs' = Allocated(allocs, a, "em")
                   /\ b_em' = a
                   /\ pc' = "b_alloc_cs"
                   /\ UNCHANGED <<em, opp_cnt, max_freq, i, freq, prev_opp_eff,
                                  b_err>>
          ELSE /\ b_err' = "alloc_em"
               /\ BuildReturn(NULL)
               /\ UNCHANGED <<heap, allocs>>
    /\ UNCHANGED <<platform, sched_energy_present, energy_model,
                   sched_freq_domains, passes, cpu, fdom, b_cpu, warned, frees,
                   ub, fail_at, reader>>

\* Lines 65-69: em->cap_states = kcalloc(opp_cnt, ...) and the loop's start.
BuildAllocCs ==
    /\ pc = "b_alloc_cs"
    /\ \E ok \in BOOLEAN :
          IF ok
          THEN LET a == Fresh({})
               IN  /\ heap' = [Store(heap, a, CsObj(opp_cnt))
                                   EXCEPT ![b_em].cap_states = a]
                   /\ allocs' = Allocated(allocs, a, "cs")
                   /\ i' = 0 /\ freq' = 0
                   /\ pc' = "b_opp"
                   /\ b_err' = b_err
          ELSE /\ b_err' = "alloc_cs"
               /\ pc' = "b_free_em"
               /\ UNCHANGED <<heap, allocs, i, freq>>
    /\ UNCHANGED <<platform, sched_energy_present, energy_model,
                   sched_freq_domains, passes, init_locals, b_cpu, opp_cnt,
                   max_freq, b_em, prev_opp_eff, warned, frees, ub, fail_at,
                   reader>>

\* BuildOpp warning only on a strictly greater efficiency, opp_eff > prev_opp_eff.
BuildOpp_strict ==
    /\ pc = "b_opp" /\ i < opp_cnt
    /\ \E err \in BOOLEAN :
          LET k == FreqCeil(freq)
          IN  IF err \/ k = 0
              THEN /\ b_err' = "ceil"
                   /\ pc' = "b_free_cs"
                   /\ UNCHANGED <<heap, i, freq, prev_opp_eff, warned>>
              ELSE IF opps[k].power = 0 \/ opps[k].freq = 0
                   THEN /\ b_err' = "zero"
                        /\ freq' = opps[k].freq
                        /\ pc' = "b_free_cs"
                        /\ UNCHANGED <<heap, i, prev_opp_eff, warned>>
                   ELSE LET cap == Capacity(opps[k].freq, cap_scale, max_freq)
                            eff == OppEff(cap, opps[k].power)
                        IN  /\ heap' = [heap EXCEPT
                                   ![heap[b_em].cap_states].states[i + 1] =
                                       [cap |-> cap, power |-> opps[k].power]]
                            /\ warned' = IF eff > prev_opp_eff
                                         THEN warned \cup {i} ELSE warned
                            /\ prev_opp_eff' = eff
                            /\ i' = i + 1
                            /\ freq' = opps[k].freq + 1
                            /\ pc' = "b_opp"
                            /\ b_err' = b_err
    /\ UNCHANGED <<platform, sched_energy_present, energy_model,
                   sched_freq_domains, passes, init_locals, b_cpu, opp_cnt,
                   max_freq, b_em, account, reader>>

\* Lines 69-95: one iteration of the loop over the operating points.
BuildOpp ==
    /\ pc = "b_opp" /\ i < opp_cnt
    /\ \E err \in BOOLEAN :
          LET k == FreqCeil(freq)
          IN  IF err \/ k = 0
              THEN /\ b_err' = "ceil"
                   /\ pc' = "b_free_cs"
                   /\ UNCHANGED <<heap, i, freq, prev_opp_eff, warned>>
              ELSE IF opps[k].power = 0 \/ opps[k].freq = 0
                   THEN /\ b_err' = "zero"
                        /\ freq' = opps[k].freq
                        /\ pc' = "b_free_cs"
                        /\ UNCHANGED <<heap, i, prev_opp_eff, warned>>
                   ELSE LET cap == Capacity(opps[k].freq, cap_scale, max_freq)
                            eff == OppEff(cap, opps[k].power)
                        IN  /\ heap' = [heap EXCEPT
                                   ![heap[b_em].cap_states].states[i + 1] =
                                       [cap |-> cap, power |-> opps[k].power]]
                            /\ warned' = IF eff >= prev_opp_eff
                                         THEN warned \cup {i} ELSE warned
                            /\ prev_opp_eff' = eff
                            /\ i' = i + 1
                            /\ freq' = opps[k].freq + 1
                            /\ pc' = "b_opp"
                            /\ b_err' = b_err
    /\ UNCHANGED <<platform, sched_energy_present, energy_model,
                   sched_freq_domains, passes, init_locals, b_cpu, opp_cnt,
                   max_freq, b_em, account, reader>>

\* Lines 97-98: em->nr_cap_states = opp_cnt; return em.
BuildDone ==
    /\ pc = "b_opp" /\ i >= opp_cnt
    /\ heap' = [heap EXCEPT ![b_em].nr_cap_states = opp_cnt]
    /\ BuildReturn(b_em)
    /\ UNCHANGED <<platform, sched_energy_present, energy_model,
                   sched_freq_domains, passes, cpu, fdom, b_cpu, warned, b_err,
                   account, reader>>

\* BuildFreeCs without its kfree: the jump taken to free_em instead of free_cs.
BuildFreeCs_leak ==
    /\ pc = "b_free_cs"
    /\ pc' = "b_free_em"
    /\ UNCHANGED <<platform, globals, passes, init_locals, build_locals, account,
                   reader>>

\* Lines 100-101: free_cs: kfree(em->cap_states).
BuildFreeCs ==
    /\ pc = "b_free_cs"
    /\ heap' = KfreeHeap(heap, heap[b_em].cap_states)
    /\ frees' = KfreeCount(frees, heap[b_em].cap_states)
    /\ pc' = "b_free_em"
    /\ UNCHANGED <<platform, sched_energy_present, energy_model,
                   sched_freq_domains, passes, init_locals, build_locals, allocs,
                   ub, fail_at, reader>>

\* Lines 102-104: free_em: kfree(em); return NULL.
BuildFreeEm ==
    /\ pc = "b_free_em"
    /\ heap' = KfreeHeap(heap, b_em)
    /\ frees' = KfreeCount(frees, b_em)
    /\ BuildReturn(NULL)
    /\ UNCHANGED <<platform, sched_energy_present, energy_model,
                   sched_freq_domains, passes, cpu, fdom, b_cpu, warned, b_err,
                   allocs, ub, fail_at, reader>>

(***************************************************************************)
(* init_sched_energy, continued                                            *)
(***************************************************************************)
\* LinkSlots assigning the model to the first CPU of the span only.
LinkSlots_first(slot, span, e) ==
    [c \in Cpus |-> IF c = CpumaskFirst(span) THEN e ELSE slot[c]]

\* Lines 172-173: for_each_cpu(fdom_cpu, span) *per_cpu_ptr(energy_model,
\* fdom_cpu) = em.
LinkSlots(slot, span, e) == [c \in Cpus |-> IF c \in span THEN e ELSE slot[c]]

\* The return of init_sched_energy: its locals die.
InitReturn(outcome) ==
    /\ passes' = Append(passes, outcome)
    /\ pc' = "idle"
    /\ cpu' = 0 /\ fdom' = NULL /\ em' = NULL

\* Lines 169-174: the test of the builder's result, the assignment of the
\* model to every CPU of the span, and the loop's increment.
Link ==
    /\ pc = "built"
    /\ IF em = NULL
       THEN /\ pc' = "free_em"
            /\ fail_at' = "build"
            /\ UNCHANGED <<heap, cpu>>
       ELSE /\ heap' = [heap EXCEPT ![energy_model].slot =
                            LinkSlots(@, heap[fdom].span, em)]
            /\ cpu' = cpu + 1
            /\ pc' = "for_each_cpu"
            /\ fail_at' = fail_at
    /\ b_err' = "none"
    /\ UNCHANGED <<platform, sched_energy_present, energy_model,
                   sched_freq_domains, passes, fdom, em, b_cpu, opp_cnt,
                   max_freq, b_em, i, freq, prev_opp_eff, warned, allocs, frees,
                   ub, reader>>

\* Lines 176-179: static_branch_enable(&sched_energy_present); return.
Enable ==
    /\ pc = "enable"
    /\ sched_energy_present' = TRUE
    /\ InitReturn("ok")
    /\ UNCHANGED <<platform, energy_model, sched_freq_domains, heap,
                   build_locals, account, reader>>

(***************************************************************************)
(* free_energy_model                                                       *)
(***************************************************************************)
\* Lines 113-123: one iteration of list_for_each_entry_safe.  The model is
\* found through the slot of the first CPU of the span; a slot that holds a
\* pointer to a model already freed makes both kfree calls undefined.
FreeDomain ==
    /\ pc = "free_em" /\ sched_freq_domains # << >>
    /\ LET pos == Head(sched_freq_domains)
           e   == heap[energy_model].slot[CpumaskFirst(heap[pos].span)]
           h1  == IF e # NULL /\ e \in DOMAIN heap
                  THEN KfreeHeap(KfreeHeap(heap, heap[e].cap_states), e)
                  ELSE heap
           f1  == IF e = NULL THEN frees
                  ELSE IF e \in DOMAIN heap
                       THEN KfreeCount(KfreeCount(frees, heap[e].cap_states), e)
                       ELSE KfreeCount(frees, e)
       IN  /\ heap' = KfreeHeap(h1, pos)
           /\ frees' = KfreeCount(f1, pos)
           /\ ub' = (ub \/ (e # NULL /\ e \notin DOMAIN heap))
           /\ sched_freq_domains' = Tail(sched_freq_domains)
    /\ UNCHANGED <<platform, sched_energy_present, energy_model, pc, passes,
                   init_locals, build_locals, allocs, fail_at, reader>>

\* FreePercpu with the static key disabled on the way out.
FreePercpu_disable ==
    /\ pc = "free_em" /\ sched_freq_domains = << >>
    /\ heap' = KfreeHeap(heap, energy_model)
    /\ frees' = KfreeCount(frees, energy_model)
    /\ sched_energy_present' = FALSE
    /\ pc' = "exit_fail"
    /\ UNCHANGED <<platform, energy_model, sched_freq_domains, passes,
                   init_locals, build_locals, allocs, ub, fail_at, reader>>

\* Line 125: free_percpu(energy_model); the pointer is left as it is.
FreePercpu ==
    /\ pc = "free_em" /\ sched_freq_domains = << >>
    /\ heap' = KfreeHeap(heap, energy_model)
    /\ frees' = KfreeCount(frees, energy_model)
    /\ pc' = "exit_fail"
    /\ UNCHANGED <<platform, sched_energy_present, energy_model,
                   sched_freq_domains, passes, init_locals, build_locals, allocs,
                   ub, fail_at, reader>>

\* Lines 182-184: exit_fail: pr_err(); return.
ExitFail ==
    /\ pc = "exit_fail"
    /\ InitReturn("fail")
    /\ UNCHANGED <<platform, globals, build_locals, account, reader>>

(***************************************************************************)
(* The reader: if (sched_energy_enabled()) find_cap_state(cpu, util)       *)
(***************************************************************************)
\* Line 69 of energy.h: util += util >> 2.
AdjustUtil(util) == util + (util \div 4)

\* The scan with a strict comparison, cs->cap > util.
RECURSIVE ScanCapStates_strict(_, _, _, _)
ScanCapStates_strict(nr, states, util, k) ==
    IF k >= nr THEN nr
    ELSE IF states[k + 1].cap > util THEN k + 1
         ELSE ScanCapStates_strict(nr, states, util, k + 1)

\* Lines 71-77 of energy.h: the scan; the result is the index (from 1) of the
\* entry cs points to, 0 for cs = NULL.
RECURSIVE ScanCapStates(_, _, _, _)
ScanCapStates(nr, states, util, k) ==
    IF k >= nr THEN nr
    ELSE IF states[k + 1].cap >= util THEN k + 1
         ELSE ScanCapStates(nr, states, util, k + 1)

\* find_cap_state on a model's fields.
find_cap_state(nr, states, util) == ScanCapStates(nr, states, AdjustUtil(util), 0)

\* Lines 57-60: sched_energy_enabled(), and the call of find_cap_state when
\* it returns true.
ReadEnabled ==
    /\ r_pc = "idle"
    /\ r_pc' = IF sched_energy_present THEN "find" ELSE "idle"
    /\ UNCHANGED <<platform, globals, writer, r_em, r_util, r_ret, r_states,
                   r_fault>>

\* Line 65: em = *per_cpu_ptr(energy_model, cpu), for the cpu of the call.
ReadModel ==
    /\ r_pc = "find"
    /\ IF energy_model = NULL
       THEN r_fault' = "null" /\ r_pc' = "ret" /\ r_em' = r_em
       ELSE IF energy_model \notin DOMAIN heap
            THEN r_fault' = "freed" /\ r_pc' = "ret" /\ r_em' = r_em
            ELSE /\ \E c \in Cpus : r_em' = heap[energy_model].slot[c]
                 /\ r_pc' = "scan"
                 /\ r_fault' = r_fault
    /\ UNCHANGED <<platform, globals, writer, r_util, r_ret, r_states>>

\* Lines 69-77: the scan of em->cap_states and the return of cs.  r_states is
\* the table the scan read.
ReadScan ==
    /\ r_pc = "scan"
    /\ \E u \in Utils :
          /\ r_util' = u
          /\ IF r_em = NULL
             THEN r_fault' = "null" /\ UNCHANGED <<r_ret, r_states>>
             ELSE IF r_em \notin DOMAIN heap
                     \/ (heap[r_em].nr_cap_states > 0
                         /\ heap[r_em].cap_states \notin DOMAIN heap)
                  THEN r_fault' = "freed" /\ UNCHANGED <<r_ret, r_states>>
                  ELSE LET states == IF heap[r_em].nr_cap_states > 0
                                     THEN heap[heap[r_em].cap_states].states
                                     ELSE << >>
                       IN  /\ r_ret' = find_cap_state(heap[r_em].nr_cap_states,
                                                      states, u)
                           /\ r_states' = states
                           /\ r_fault' = r_fault
    /\ r_pc' = "ret"
    /\ r_em' = NULL
    /\ UNCHANGED <<platform, globals, writer>>

\* The reader's return, to its next query.
ReadReturn ==
    /\ r_pc = "ret"
    /\ r_pc' = "idle" /\ r_em' = NULL /\ r_util' = 0 /\ r_ret' = 0
    /\ r_states' = << >> /\ r_fault' = "none"
    /\ UNCHANGED <<platform, globals, writer>>

Next ==
    \/ Call \/ AllocPercpu \/ ForEachCpu \/ AllocFdom \/ GetSharingCpus
    \/ BuildEntry \/ BuildMaxFreq \/ BuildAllocEm \/ BuildAllocCs \/ BuildOpp
    \/ BuildDone \/ BuildFreeCs \/ BuildFreeEm
    \/ Link \/ Enable \/ FreeDomain \/ FreePercpu \/ ExitFail
    \/ ReadEnabled \/ ReadModel \/ ReadScan \/ ReadReturn

Spec == Init /\ [][Next]_vars

(***************************************************************************)
(* Properties                                                              *)
(***************************************************************************)
Last(s) == s[Len(s)]

\* The outcome of the pass that returned last, "none" before any return.
Returned == IF pc = "idle" /\ passes # << >> THEN Last(passes) ELSE "none"

\* A model a reader can use: live, nr_cap_states set, every entry of
\* cap_states filled (a filled entry has a power other than 0).
FullModel(e) ==
    /\ e # NULL /\ e \in DOMAIN heap
    /\ heap[e].nr_cap_states >= 1
    /\ heap[e].cap_states \in DOMAIN heap
    /\ LET t == heap[heap[e].cap_states].states
       IN  /\ Len(t) = heap[e].nr_cap_states
           /\ \A k \in 1..Len(t) : t[k].power # 0

\* The mapping table is live and every possible CPU's slot holds a full model.
FullyPublished ==
    /\ energy_model # NULL /\ energy_model \in DOMAIN heap
    /\ \A c \in Cpus : FullModel(heap[energy_model].slot[c])

\* The models the mapping table holds, and their capacity tables.
Linked ==
    LET tbls == {energy_model} \cap DOMAIN heap
        ems  == {heap[t].slot[c] : t \in tbls, c \in Cpus} \cap DOMAIN heap
    IN  ems \cup {heap[e].cap_states : e \in ems}

\* What a successful pass publishes: the mapping table, the models and the
\* domain records.
Published ==
    Linked \cup (({energy_model} \cup SeqRange(sched_freq_domains))
                    \cap DOMAIN heap)

NonDecreasing(t) == \A k \in 1..(Len(t) - 1) : t[k].cap <= t[k + 1].cap

\* C1: whenever the flag is true, every possible CPU's slot points to a live,
\* fully initialised model, and a reader that saw the flag true never reads
\* through a null or freed pointer.
C1_ReaderSafe ==
    /\ sched_energy_present => FullyPublished
    /\ r_fault = "none"

\* C2: after a failed pass the flag is false, the domain list is empty and
\* energy_model is back to NULL.
C2_AllOrNothing ==
    Returned = "fail" =>
        /\ ~sched_energy_present
        /\ sched_freq_domains = << >>
        /\ energy_model = NULL

\* C3: once the flag is true no step of init_sched_energy changes the mapping
\* table pointer, the domain list, the flag or any published object.
C3_IdempotentGuard ==
    [][sched_energy_present =>
          /\ sched_energy_present'
          /\ energy_model' = energy_model
          /\ sched_freq_domains' = sched_freq_domains
          /\ \A a \in Published :
                a \in DOMAIN heap' /\ heap'[a] = heap[a]]_vars

\* C4: when a pass has failed, every object it allocated has been freed
\* exactly once.
C4_NoLeak ==
    Returned = "fail" =>
        \A a \in DOMAIN allocs : a \in DOMAIN frees /\ frees[a] = 1

\* The entry find_cap_state is to return for table t and utilization u: the
\* lowest index whose capacity is >= u + floor(u / 4), the last one if none.
LowestFit(t, u) ==
    LET S == { k \in 1..Len(t) : 4 * t[k].cap >= 4 * u + (u - (u % 4)) }
    IN  IF S = {} THEN Len(t) ELSE CHOOSE k \in S : \A j \in S : k <= j

\* C5: on a non-empty table of non-decreasing capacities find_cap_state
\* returns the lowest entry whose capacity is >= u + floor(u/4), the last
\* entry when there is none, and the call changes nothing but the reader's
\* own locals.
C5_FindCapState ==
    [][(r_pc = "scan" /\ r_pc' = "ret" /\ r_fault' = "none"
            /\ heap[r_em].nr_cap_states >= 1
            /\ NonDecreasing(heap[heap[r_em].cap_states].states))
        => /\ r_ret' = LowestFit(heap[heap[r_em].cap_states].states, r_util')
           /\ UNCHANGED <<platform, globals, writer>>]_vars

\* C5 witness: the table [100, 300, 600] scanned for u = 200 gave the 300 entry.
C5_Witness ==
    /\ r_pc = "ret" /\ r_fault = "none" /\ r_util = 200 /\ r_ret = 2
    /\ Len(r_states) = 3
    /\ r_states[1].cap = 100 /\ r_states[2].cap = 300 /\ r_states[3].cap = 600

\* Every operating point of the platform has a frequency and a power other
\* than 0, and there is at least one.
ValidOpps ==
    /\ Len(opps) >= 1
    /\ \A k \in 1..Len(opps) : opps[k].freq # 0 /\ opps[k].power # 0

\* C6: a model returned by build_energy_model has one entry per operating
\* point, entry k holding freq_k * scale / max_freq and the power of the k-th
\* operating point in ascending frequency order, so capacities are
\* non-decreasing; and on valid operating points the builder fails only on an
\* error of a query or of the allocator.
C6_BuildTable ==
    pc = "built" =>
        IF em # NULL
        THEN LET t == heap[heap[em].cap_states].states
                 N == Len(opps)
             IN  /\ heap[em].nr_cap_states = N /\ Len(t) = N /\ N >= 1
                 /\ \A k \in 1..N :
                       /\ t[k].cap = (opps[k].freq * cap_scale) \div opps[N].freq
                       /\ t[k].power = opps[k].power
                 /\ NonDecreasing(t)
        ELSE ValidOpps =>
                b_err \in {"dev", "count", "floor", "alloc_em", "alloc_cs", "ceil"}

\* C6 witness: the builder returned a three-entry model.
C6_Witness ==
    /\ pc = "built" /\ em # NULL
    /\ heap[em].nr_cap_states = 3
    /\ heap[heap[em].cap_states].states[2].cap = 300

\* C7: when build_energy_model returns NULL it has reported an error and
\* every object it allocated has been freed exactly once: the only models and
\* tables of the pass still live are those of the domains linked before, and
\* nothing else was freed.  A model is returned only for operating points
\* that are all valid.
C7_BuildFailure ==
    pc = "built" =>
        IF em = NULL
        THEN /\ b_err # "none"
             /\ \A a \in DOMAIN allocs :
                   allocs[a] \in {"em", "cs"} =>
                       IF a \in DOMAIN heap
                       THEN a \in Linked /\ a \notin DOMAIN frees
                       ELSE a \in DOMAIN frees /\ frees[a] = 1
             /\ \A a \in DOMAIN frees : a \in DOMAIN allocs /\ frees[a] = 1
        ELSE ValidOpps /\ b_err = "none"

\* C7 witness: a power of 0 at the second entry, after the first was stored:
\* the model and its table were both allocated and both freed.
C7_Witness ==
    /\ pc = "built" /\ em = NULL /\ b_err = "zero"
    /\ opps[1].power # 0 /\ opps[1].freq # 0
    /\ Cardinality({a \in DOMAIN allocs : allocs[a] \in {"em", "cs"}}) = 2
    /\ Cardinality(DOMAIN frees) = 2

\* The domain records the current pass put on the list.
PassDomains == { d \in SeqRange(sched_freq_domains) : d \in DOMAIN allocs }

\* C8: after a successful pass all CPUs of a domain's span share one model
\* object, and CPUs of different domains of the pass have different objects.
C8_SharedModel ==
    Returned = "ok" =>
        LET slot == heap[energy_model].slot
        IN  /\ \A d \in PassDomains : \A c1, c2 \in heap[d].span :
                  slot[c1] # NULL /\ slot[c1] = slot[c2]
            /\ \A d1, d2 \in PassDomains : d1 # d2 =>
                  \A c1 \in heap[d1].span, c2 \in heap[d2].span :
                      slot[c1] # slot[c2]

\* C8 witness: a successful pass over two domains, one of them of two CPUs.
C8_Witness ==
    /\ Returned = "ok"
    /\ Cardinality(PassDomains) = 2
    /\ \E d \in PassDomains : Cardinality(heap[d].span) = 2

\* C9: after the rollback of a pass in which the builder failed, the domain
\* list is empty, the flag is false and every model built in the pass is
\* freed.
C9_BuildFailureRollback ==
    (Returned = "fail" /\ fail_at = "build") =>
        /\ sched_freq_domains = << >>
        /\ ~sched_energy_present
        /\ \A a \in DOMAIN allocs :
              allocs[a] \in {"em", "cs"} => a \notin DOMAIN heap

C11_FlagIffPublished == sched_energy_present <=> FullyPublished

\* C12: while the flag is false the domain list is empty and no slot of the
\* mapping table holds a model.
C12_NothingBeforeFlag ==
    ~sched_energy_present =>
        /\ sched_freq_domains = << >>
        /\ energy_model \in DOMAIN heap =>
              \A c \in Cpus : heap[energy_model].slot[c] = NULL

\* The domain records of the list whose span holds CPU c.
DomainsOf(c) ==
    { d \in SeqRange(sched_freq_domains) \cap DOMAIN heap : c \in heap[d].span }

\* C13: after a successful pass every possible CPU belongs to the span of
\* exactly one domain record of the list.
C13_SpansPartition ==
    Returned = "ok" => \A c \in Cpus : Cardinality(DomainsOf(c)) = 1

\* C14: a step of the rollback frees no model and no capacity table a second
\* time, and the removal of a domain whose first CPU's slot is still NULL
\* frees the domain record and nothing else.
C14_FreeOnce ==
    [][(pc = "free_em" /\ sched_freq_domains # << >>
            /\ sched_freq_domains' = Tail(sched_freq_domains)) =>
          LET pos == Head(sched_freq_domains)
              e   == heap[energy_model].slot[CpumaskFirst(heap[pos].span)]
          IN  /\ ~ub'
              /\ \A a \in DOMAIN frees' : frees'[a] <= 1
              /\ e = NULL =>
                    /\ DOMAIN frees' = DOMAIN frees \cup {pos}
                    /\ DOMAIN heap' = DOMAIN heap \ {pos}]_vars

\* C15: an invocation that finds no SD_ASYM_CPUCAPACITY domain returns at
\* once: it allocates nothing, starts neither the span query nor the builder,
\* and leaves the flag, energy_model, the domain list and every published
\* object as they were.
C15_SymmetricReturn ==
    [][(pc = "idle" /\ passes' = Append(passes, "skip")) =>
          /\ pc' = "idle"
          /\ allocs' = EmptyMap
          /\ DOMAIN heap' \subseteq DOMAIN heap
          /\ \A a \in Published : a \in DOMAIN heap' /\ heap'[a] = heap[a]
          /\ UNCHANGED <<sched_energy_present, energy_model, sched_freq_domains,
                         init_locals, build_locals>>]_vars

\* C15 witness: the early return taken after a successful pass, the published
\* model still in place.
C15_Witness ==
    /\ Returned = "skip" /\ Len(passes) = 2 /\ passes[1] = "ok"
    /\ sched_energy_present /\ FullyPublished
    /\ sched_freq_domains # << >>

\* The positions of a pass between the allocation of the mapping table and
\* the end of the loop, and those inside build_energy_model or at its return.
InLoop ==
    pc \in {"for_each_cpu", "alloc_fdom", "sharing_cpus", "build", "b_max_freq",
            "b_alloc_em", "b_alloc_cs", "b_opp", "b_free_cs", "b_free_em",
            "built", "enable"}

InBuilder ==
    pc \in {"b_max_freq", "b_alloc_em", "b_alloc_cs", "b_opp", "b_free_cs",
            "b_free_em", "built"}

\* The CPUs of the rail of CPU c.
RailSpan(c) == { x \in Cpus : rail[x] = rail[c] }

\* C16: in a pass the CPUs are visited in ascending order (every CPU below
\* the one in hand already has its model), a CPU whose slot an earlier domain
\* of the pass has assigned gets no domain of its own (the pass's records
\* have disjoint spans, and the CPU in hand is in no earlier record's span),
\* the builder runs on the lowest CPU of the rail of the CPU in hand, whose
\* slots are all still empty, and after a successful pass the pass's domain
\* records are as many as the distinct models of the mapping table.
C16_OncePerRail ==
    /\ InLoop =>
          LET slot == heap[energy_model].slot
          IN  /\ \A c \in Cpus : c < cpu => slot[c] # NULL
              /\ \A d1, d2 \in PassDomains :
                    d1 # d2 => heap[d1].span \cap heap[d2].span = {}
              /\ pc \in {"alloc_fdom", "sharing_cpus"} =>
                    \A d \in PassDomains : cpu \notin heap[d].span
              /\ InBuilder =>
                    /\ b_cpu = cpu
                    /\ \A c \in RailSpan(cpu) : b_cpu <= c /\ slot[c] = NULL
                    /\ heap[fdom].span = RailSpan(cpu)
    /\ Returned = "ok" =>
          /\ Cardinality(PassDomains)
                = Cardinality({heap[energy_model].slot[c] : c \in Cpus})
          /\ \A c \in Cpus : \E d \in PassDomains : heap[d].span = RailSpan(c)

\* C16 witness: a successful pass over the rails {0, 2} and {1}: CPU 2 was
\* skipped, two records and two models.
C16_Witness ==
    /\ Returned = "ok" /\ Len(passes) = 1
    /\ rail[1] = 1 /\ rail[2] = 0
    /\ Cardinality(PassDomains) = 2
    /\ heap[energy_model].slot[0] = heap[energy_model].slot[2]
    /\ heap[energy_model].slot[0] # heap[energy_model].slot[1]

\* The efficiency ratio of entry k of table t.
Ratio(t, k) == (t[k].cap * 1048576) \div t[k].power

\* The entries of t filled so far (n of them) that call for a warning,
\* numbered from 0 as in the code.
WarnedEntries(t, n) ==
    { k \in 1..(n - 1) : ~(Ratio(t, k + 1) < Ratio(t, k)) }

\* C17: during the loop and at the return of a model, the warnings recorded
\* are exactly those of the entries i >= 1 whose efficiency ratio is not
\* strictly below the ratio of entry i - 1, never of entry 0; and the model
\* returned holds, warned or not, the table of every operating point's
\* capacity and power.
C17_EfficiencyWarning ==
    /\ (pc = "b_opp" /\ b_err = "none") =>
          /\ warned = WarnedEntries(heap[heap[b_em].cap_states].states, i)
          /\ 0 \notin warned
    /\ (pc = "built" /\ em # NULL) =>
          LET t == heap[heap[em].cap_states].states
          IN  /\ warned = WarnedEntries(t, Len(t))
              /\ 0 \notin warned
              /\ b_err = "none"
              /\ heap[em].nr_cap_states = Len(opps) /\ Len(t) = Len(opps)
              /\ \A k \in 1..Len(t) :
                    /\ t[k].cap = (opps[k].freq * cap_scale)
                                      \div opps[Len(opps)].freq
                    /\ t[k].power = opps[k].power

\* C17 witness: a model of three entries returned with a warning at entry 1,
\* whose ratio equals that of entry 0.
C17_Witness ==
    /\ pc = "built" /\ em # NULL /\ warned = {1}
    /\ heap[em].nr_cap_states = 3
    /\ LET t == heap[heap[em].cap_states].states
       IN  Ratio(t, 2) = Ratio(t, 1) /\ Ratio(t, 3) < Ratio(t, 2)

\* C18: every model the mapping table holds has nr_cap_states >= 1, and
\* whenever the flag is true find_cap_state returns, for every possible CPU
\* and every utilization, an entry of that CPU's table.
C18_NonNullEntry ==
    /\ \A e \in Linked : heap[e].kind = "em" => heap[e].nr_cap_states >= 1
    /\ sched_energy_present =>
          /\ energy_model \in DOMAIN heap
          /\ \A c \in Cpus, u \in Utils :
                LET e == heap[energy_model].slot[c]
                IN  /\ FullModel(e)
                    /\ find_cap_state(heap[e].nr_cap_states,
                                      heap[heap[e].cap_states].states, u)
                           \in 1..heap[e].nr_cap_states

\* The operating points have pairwise different frequencies, so their count
\* is the number of distinct frequencies.
DistinctFreqs == Cardinality({opps[k].freq : k \in 1..Len(opps)}) = Len(opps)

\* C19: when the operating points have distinct frequencies, no entry the
\* builder stores has a capacity above cap_scale, and in a model it returns
\* the last entry's capacity is cap_scale and no other entry's is higher.
C19_CommonScale ==
    DistinctFreqs =>
        /\ (pc = "b_opp" /\ b_em # NULL) =>
              \A k \in 1..i :
                  heap[heap[b_em].cap_states].states[k].cap <= cap_scale
        /\ (pc = "built" /\ em # NULL) =>
              LET t == heap[heap[em].cap_states].states
                  N == heap[em].nr_cap_states
              IN  /\ N = Len(t)
                  /\ t[N].cap = cap_scale
                  /\ \A k \in 1..N : t[k].cap <= t[N].cap

\* C19 witness: a model of three entries returned on scale 1000, the last
\* entry at 1000 and the first at a quarter of it.
C19_Witness ==
    /\ pc = "built" /\ em # NULL /\ cap_scale = 1000
    /\ heap[em].nr_cap_states = 3
    /\ heap[heap[em].cap_states].states[3].cap = 1000
    /\ heap[heap[em].cap_states].states[1].cap = 250

====
